---------------------------- MODULE Spec2Model ----------------------------
(***************************************************************************)
(* Model of legal_extract_app2.py: the batch loop of main(), the format    *)
(* dispatcher read_legal_file, the readers, the Tesseract OCR helpers and  *)
(* the post-validation of extract_legal_data.                              *)
(*                                                                         *)
(* Text is modelled as a sequence of characters.  A non-ASCII character is *)
(* written as its code point, e.g. "u672A" is one character.  Dictionary   *)
(* keys are written in pinyin (the source key is given beside each).       *)
(***************************************************************************)
EXTENDS Integers, Sequences, FiniteSets, TLC

\* ------------------------------------------------------------------ bounds
MaxFiles == 2   \* files in one upload
MaxPages == 2   \* pages of one scanned PDF

\* ------------------------------------------------------- program constants
\* REQUIRED_FIELDS, in order:
\*   wenshu_mingcheng = 文书名称      anhao = 案号
\*   shenli_fayuan = 审理法院         panjue_riqi = 判决日期
\*   yuangao_shenqingren = 原告/申请人
\*   beigao_beishenqingren = 被告/被申请人
\*   anyou = 案由                     susong_qingqiu = 诉讼请求
\*   fayuan_renwei = 法院认为         panjue_jieguo = 判决结果
\*   wenshu_leixing = 文书类型
REQUIRED_FIELDS ==
  << "wenshu_mingcheng", "anhao", "shenli_fayuan", "panjue_riqi",
     "yuangao_shenqingren", "beigao_beishenqingren", "anyou",
     "susong_qingqiu", "fayuan_renwei", "panjue_jieguo", "wenshu_leixing" >>

RequiredSet == { REQUIRED_FIELDS[i] : i \in DOMAIN REQUIRED_FIELDS }

TITLE_FIELD == "wenshu_mingcheng"   \* 文书名称
FILENAME_KEY == "wenjianming"       \* 文件名
TIME_KEY == "tiqu_shijian"          \* 提取时间

\* col_order of save_legal_excel and of the preview
ColumnSet == {FILENAME_KEY, TIME_KEY} \cup RequiredSet

CAUSE_CUT_LENGTH == 50              \* str(e)[:50]

\* "未提及"
NOT_MENTIONED == <<"u672A", "u63D0", "u53CA">>
\* "提取失败"
EXTRACT_FAILED == <<"u63D0", "u53D6", "u5931", "u8D25">>
\* "失败原因："
FAIL_PREFIX == <<"u5931", "u8D25", "u539F", "u56E0", "uFF1A">>
\* "..."
FAIL_SUFFIX == <<".", ".", ".">>
\* "PDF无有效文本内容"
PDF_EMPTY == <<"P", "D", "F", "u65E0", "u6709", "u6548", "u6587", "u672C", "u5185", "u5BB9">>
\* "DOCX文件无有效文本内容"
DOCX_EMPTY == <<"D", "O", "C", "X", "u6587", "u4EF6", "u65E0", "u6709", "u6548", "u6587", "u672C", "u5185", "u5BB9">>
\* "TXT文件无有效文本内容"
TXT_EMPTY == <<"T", "X", "T", "u6587", "u4EF6", "u65E0", "u6709", "u6548", "u6587", "u672C", "u5185", "u5BB9">>
\* "OCR识别失败：图片无有效文本内容"
OCR_EMPTY == <<"O", "C", "R", "u8BC6", "u522B", "u5931", "u8D25", "uFF1A", "u56FE", "u7247", "u65E0", "u6709", "u6548", "u6587", "u672C", "u5185", "u5BB9">>
\* "图片OCR识别异常："
IMG_OCR_ERR == <<"u56FE", "u7247", "O", "C", "R", "u8BC6", "u522B", "u5F02", "u5E38", "uFF1A">>
\* "扫描件PDF处理异常："
PDF_OCR_ERR == <<"u626B", "u63CF", "u4EF6", "P", "D", "F", "u5904", "u7406", "u5F02", "u5E38", "uFF1A">>
\* "DOCX读取异常："
DOCX_ERR == <<"D", "O", "C", "X", "u8BFB", "u53D6", "u5F02", "u5E38", "uFF1A">>
\* "可编辑PDF读取异常："
PDF_ERR == <<"u53EF", "u7F16", "u8F91", "P", "D", "F", "u8BFB", "u53D6", "u5F02", "u5E38", "uFF1A">>
\* "TXT读取异常："
TXT_ERR == <<"T", "X", "T", "u8BFB", "u53D6", "u5F02", "u5E38", "uFF1A">>
\* "不支持的文件格式："
UNSUPPORTED_HEAD == <<"u4E0D", "u652F", "u6301", "u7684", "u6587", "u4EF6", "u683C", "u5F0F", "uFF1A">>
\* "，请上传DOCX/PDF/TXT/JPG/PNG"
UNSUPPORTED_TAIL == <<"uFF0C", "u8BF7", "u4E0A", "u4F20", "D", "O", "C", "X", "/", "P", "D", "F", "/", "T", "X", "T", "/", "J", "P", "G", "/", "P", "N", "G">>
\* "大模型结构化提取异常："
LLM_ERR == <<"u5927", "u6A21", "u578B", "u7ED3", "u6784", "u5316", "u63D0", "u53D6", "u5F02", "u5E38", "uFF1A">>
\* "【扫描件PDF-第"
PAGE_HEAD == <<"u3010", "u626B", "u63CF", "u4EF6", "P", "D", "F", "-", "u7B2C">>
\* "页开始】"
PAGE_START_TAIL == <<"u9875", "u5F00", "u59CB", "u3011">>
\* "页结束】\n"
PAGE_END_TAIL == <<"u9875", "u7ED3", "u675F", "u3011", "\n">>
\* str(None)
PY_NONE == <<"N", "o", "n", "e">>

\* ------------------------------------------------------------ text helpers
Min(a, b) == IF a < b THEN a ELSE b

\* s[:n]
Take(s, n) == SubSeq(s, 1, Min(n, Len(s)))

\* a run of n copies of the character c
Rep(c, n) == [i \in 1..n |-> c]

\* characters str.strip() removes
IsSpace(c) == c \in {" ", "\t", "\n", "u3000"}

RECURSIVE LStrip(_)
LStrip(s) == IF s = <<>> THEN <<>>
             ELSE IF IsSpace(Head(s)) THEN LStrip(Tail(s)) ELSE s

RECURSIVE RStrip(_)
RStrip(s) == IF s = <<>> THEN <<>>
             ELSE IF IsSpace(s[Len(s)]) THEN RStrip(SubSeq(s, 1, Len(s) - 1))
             ELSE s

\* str.strip()
Strip(s) == RStrip(LStrip(s))

\* sep.join(parts)
RECURSIVE Join(_, _)
Join(parts, sep) ==
  IF parts = <<>> THEN <<>>
  ELSE IF Len(parts) = 1 THEN parts[1]
  ELSE parts[1] \o sep \o Join(Tail(parts), sep)

\* "".join(parts)
Concat(parts) == Join(parts, <<>>)

UpperAlpha == <<"A","B","C","D","E","F","G","H","I","J","K","L","M",
                "N","O","P","Q","R","S","T","U","V","W","X","Y","Z">>
LowerAlpha == <<"a","b","c","d","e","f","g","h","i","j","k","l","m",
                "n","o","p","q","r","s","t","u","v","w","x","y","z">>

LowerChar(c) ==
  IF \E i \in DOMAIN UpperAlpha : UpperAlpha[i] = c
  THEN LowerAlpha[CHOOSE i \in DOMAIN UpperAlpha : UpperAlpha[i] = c]
  ELSE c

\* str.lower()
Lower(s) == [i \in DOMAIN s |-> LowerChar(s[i])]

\* name.rfind('.') as a 1-based position, 0 when there is no dot
RFindDot(name) ==
  IF \E i \in DOMAIN name : name[i] = "."
  THEN CHOOSE i \in DOMAIN name :
         name[i] = "." /\ \A j \in DOMAIN name : name[j] = "." => j <= i
  ELSE 0

\* pathlib's PurePath.suffix
Suffix(name) ==
  LET i == RFindDot(name)
  IN  IF 1 < i /\ i < Len(name) THEN SubSeq(name, i, Len(name)) ELSE <<>>

Digits == <<"0","1","2","3","4","5","6","7","8","9">>

\* str(n) for n >= 0
RECURSIVE IntToStr(_)
IntToStr(n) ==
  IF n < 10 THEN <<Digits[n + 1]>>
  ELSE IntToStr(n \div 10) \o <<Digits[(n % 10) + 1]>>

\* --------------------------------------------------------------- JSON values
\* A value of the parsed reply: a string or null.
Str(s) == [kind |-> "str", text |-> s]
JNull == [kind |-> "null", text |-> <<>>]

\* str(value)
PyStr(v) == IF v.kind = "null" THEN PY_NONE ELSE v.text

\* a function result: returned value or raised exception message
Ret(v) == [ok |-> TRUE, val |-> v]
Exc(m) == [ok |-> FALSE, val |-> m]

\* ------------------------------------------------ Tesseract OCR (lines 71-110)
\* tesseract_ocr_image: `img` is what the engine does with the image,
\* Ret(recognised text) or Exc(cause).
tesseract_ocr_image(img) ==
  IF img.ok
  THEN Ret(IF Strip(img.val) # <<>> THEN Strip(img.val) ELSE OCR_EMPTY)
  ELSE Exc(IMG_OCR_ERR \o img.val)

\* "【扫描件PDF-第{page_num}页开始】" / "【扫描件PDF-第{page_num}页结束】\n"
PageStart(n) == PAGE_HEAD \o IntToStr(n) \o PAGE_START_TAIL
PageEnd(n) == PAGE_HEAD \o IntToStr(n) \o PAGE_END_TAIL

\* the three pieces the loop appends for page n
PageBlock(n, text) == PageStart(n) \o text \o PageEnd(n)

\* first page whose recognition raises, 0 when none does
FirstBadPage(pages) ==
  IF \E i \in DOMAIN pages : ~pages[i].ok
  THEN CHOOSE i \in DOMAIN pages :
         ~pages[i].ok /\ \A j \in DOMAIN pages : ~pages[j].ok => i <= j
  ELSE 0

\* page images still on disk when the page loop is left: the temp image of a
\* page is unlinked only after tesseract_ocr_image returned for it.
PageImagesLeft(pages) ==
  IF FirstBadPage(pages) = 0 THEN {} ELSE {FirstBadPage(pages)}

\* tesseract_ocr_scanned_pdf: `scan` is Ret(pages) when rasterisation works
\* (pages = what the engine does with each page image) or Exc(cause).
\* Result: the return/raise and the page numbers whose temp image is left.
tesseract_ocr_scanned_pdf(scan) ==
  IF ~scan.ok
  THEN [res |-> Exc(PDF_OCR_ERR \o scan.val), left |-> {}]
  ELSE LET pages == scan.val
           bad == FirstBadPage(pages)
       IN  IF bad = 0
           THEN [res |-> Ret(Concat([i \in DOMAIN pages |->
                          PageBlock(i, tesseract_ocr_image(pages[i]).val)])),
                 left |-> PageImagesLeft(pages)]
           ELSE [res |-> Exc(PDF_OCR_ERR \o tesseract_ocr_image(pages[bad]).val),
                 left |-> PageImagesLeft(pages)]

\* ----------------------------------------------------- readers (lines 113-147)
NonBlank(t) == Strip(t) # <<>>
Truthy(t) == t # <<>>

StripAll(parts) == [i \in DOMAIN parts |-> Strip(parts[i])]

\* read_docx_file: `doc` is Ret(paragraph texts) or Exc(cause)
read_docx_file(doc) ==
  IF ~doc.ok THEN Exc(DOCX_ERR \o doc.val)
  ELSE LET doc_text == StripAll(SelectSeq(doc.val, NonBlank))
       IN  Ret(IF doc_text # <<>> THEN Join(doc_text, <<"\n">>) ELSE DOCX_EMPTY)

\* read_pdf_file: `doc` is Ret(page texts, <<>> for a page without text)
\* or Exc(cause)
read_pdf_file(doc) ==
  IF ~doc.ok THEN Exc(PDF_ERR \o doc.val)
  ELSE LET pdf_text == StripAll(SelectSeq(doc.val, Truthy))
       IN  Ret(IF pdf_text # <<>> THEN Join(pdf_text, <<"\n">>) ELSE PDF_EMPTY)

\* read_txt_file: `raw` holds what decoding the bytes as utf-8 and as gbk
\* gives, each Ret(text) or Exc(cause)
read_txt_file(raw) ==
  IF ~raw.utf8.ok /\ ~raw.gbk.ok THEN Exc(TXT_ERR \o raw.gbk.val)
  ELSE LET text == IF raw.utf8.ok THEN raw.utf8.val ELSE raw.gbk.val
       IN  Ret(IF text # <<>> THEN Strip(text) ELSE TXT_EMPTY)

\* ------------------------------------------- read_legal_file (lines 150-181)
SUFFIX_DOCX == <<".", "d", "o", "c", "x">>
SUFFIX_PDF == <<".", "p", "d", "f">>
SUFFIX_TXT == <<".", "t", "x", "t">>
\* the list tested at line 173: [".jpg", ".jpeg", ".png", "bmp"]
IMAGE_SUFFIXES ==
  { <<".", "j", "p", "g">>, <<".", "j", "p", "e", "g">>,
    <<".", "p", "n", "g">>, <<"b", "m", "p">> }

\* a test for the sentinel alone
PdfNeedsOcrSentinelOnly(pdf_text) == pdf_text = PDF_EMPTY

\* line 164: pdf_text not in ["PDF无有效文本内容", ""] is false
PdfNeedsOcr(pdf_text) == pdf_text \in {PDF_EMPTY, <<>>}

Call(stage, r) == [stage |-> stage, ok |-> r.ok, out |-> r.val]

\* read_legal_file on a path with the given name.  `env` holds what the
\* libraries do with the file: env.docx, env.pdf, env.txt, env.img, and
\* env.scan1 / env.scan2 for the first / second call of the scanned-PDF OCR.
\* Result: the return/raise, the calls made in order, and the page images
\* left on disk as <<call number, page>>.
read_legal_file(name, env) ==
  LET file_suffix == Lower(Suffix(name))
  IN  IF file_suffix = SUFFIX_DOCX
      THEN LET r == read_docx_file(env.docx)
           IN  [res |-> r, calls |-> <<Call("read_docx_file", r)>>, left |-> {}]
      ELSE IF file_suffix = SUFFIX_PDF
      THEN LET d == read_pdf_file(env.pdf)
               o1 == tesseract_ocr_scanned_pdf(env.scan1)
               o2 == tesseract_ocr_scanned_pdf(env.scan2)
               c0 == Call("read_pdf_file", d)
               c1 == Call("tesseract_ocr_scanned_pdf", o1.res)
               c2 == Call("tesseract_ocr_scanned_pdf", o2.res)
               l1 == { <<1, p>> : p \in o1.left }
               l2 == { <<2, p>> : p \in o2.left }
           IN  IF d.ok /\ ~PdfNeedsOcr(d.val)
               THEN [res |-> d, calls |-> <<c0>>, left |-> {}]
               ELSE IF d.ok /\ ~o1.res.ok
               \* the OCR call of line 168 raised inside the try: the bare
               \* except of line 169 runs the OCR call of line 171
               THEN [res |-> o2.res, calls |-> <<c0, c1, c2>>, left |-> l1 \cup l2]
               ELSE [res |-> o1.res, calls |-> <<c0, c1>>, left |-> l1]
      ELSE IF file_suffix \in IMAGE_SUFFIXES
      THEN LET r == tesseract_ocr_image(env.img)
           IN  [res |-> r, calls |-> <<Call("tesseract_ocr_image", r)>>, left |-> {}]
      ELSE IF file_suffix = SUFFIX_TXT
      THEN LET r == read_txt_file(env.txt)
           IN  [res |-> r, calls |-> <<Call("read_txt_file", r)>>, left |-> {}]
      ELSE [res |-> Exc(UNSUPPORTED_HEAD \o file_suffix \o UNSUPPORTED_TAIL),
            calls |-> <<>>, left |-> {}]

\* ---------------------------------------- extract_legal_data (lines 184-231)
\* a test without strip()
IsBlankNoStrip(v) == PyStr(v) = <<>>

\* line 227: not str(legal_result_dict[field]).strip()
IsBlank(v) == Strip(PyStr(v)) = <<>>

\* lines 226-228: the loop that completes the parsed reply
FillMissing(d) ==
  [f \in (DOMAIN d) \cup RequiredSet |->
     IF f \in RequiredSet /\ (f \notin DOMAIN d \/ IsBlank(d[f]))
     THEN Str(NOT_MENTIONED)
     ELSE d[f]]

\* json.loads on a reply that is not JSON:
\* "Expecting value: line 1 column 1 (char 0)"
JSON_ERR ==
  <<"E","x","p","e","c","t","i","n","g"," ","v","a","l","u","e",":"," ",
    "l","i","n","e"," ","1"," ","c","o","l","u","m","n"," ","1"," ",
    "(","c","h","a","r"," ","0",")">>

\* extract_legal_data: `api` is Exc(cause) when the request fails, else
\* Ret(reply) with reply.json = FALSE for a reply that does not parse and
\* reply.obj the parsed object otherwise.
extract_legal_data(api) ==
  IF ~api.ok THEN Exc(LLM_ERR \o api.val)
  ELSE IF ~api.val.json THEN Exc(LLM_ERR \o JSON_ERR)
  ELSE Ret(FillMissing(api.val.obj))

\* ------------------------------------------------------------------ inputs
\* uploaded file names: one per type the uploader accepts (line 296)
FileNames ==
  { <<"a", ".", "d", "o", "c", "x">>,
    <<"b", ".", "p", "d", "f">>,
    <<"c", ".", "t", "x", "t">>,
    <<"d", ".", "j", "p", "g">>,
    <<"e", ".", "J", "P", "E", "G">>,
    <<"f", ".", "p", "n", "g">>,
    <<"g", ".", "b", "m", "p">> }

\* names read_legal_file is also tried on by itself
OtherNames ==
  { <<"h", ".", "P", "d", "F">>,
    <<"i", ".", "B", "M", "P">>,
    <<"j", ".", "d", "o", "c">>,
    <<"k", "b", "m", "p">>,
    <<"l", ".", "x", ".", "p", "n", "g">>,
    <<".", "t", "x", "t">> }

\* messages of the exceptions the libraries raise
CAUSE_SHORT == <<"E", "O", "F">>
CAUSE_LONG == Rep("x", CAUSE_CUT_LENGTH - 2)

\* sequences over S of length 0..n
RECURSIVE SeqsUpTo(_, _)
SeqsUpTo(S, n) ==
  IF n = 0 THEN {<<>>}
  ELSE LET shorter == SeqsUpTo(S, n - 1)
       IN  shorter \cup { Append(q, x) : q \in { r \in shorter : Len(r) = n - 1 }, x \in S }

\* an input nobody reads
Unused == Exc(<<>>)
Env(docx, pdf, scan1, scan2, img, txt) ==
  [docx |-> docx, pdf |-> pdf, scan1 |-> scan1, scan2 |-> scan2, img |-> img, txt |-> txt]

\* the library behaviours to consider for a PDF: the first / second scan is
\* enumerated only when read_legal_file makes that call
PdfEnvs(name, docs, scans) ==
  UNION { IF Len(read_legal_file(name, Env(Unused, pdf, Unused, Unused, Unused, Unused)).calls) < 2
          THEN { Env(Unused, pdf, Unused, Unused, Unused, Unused) }
          ELSE UNION { IF Len(read_legal_file(name, Env(Unused, pdf, s1, Unused, Unused, Unused)).calls) < 3
                       THEN { Env(Unused, pdf, s1, Unused, Unused, Unused) }
                       ELSE { Env(Unused, pdf, s1, s2, Unused, Unused) : s2 \in scans }
                       : s1 \in scans }
          : pdf \in docs }

\* the library behaviours to consider for a file, by what the file is
EnvsOf(name, docxs, pdfs, scans, imgs, txts) ==
  LET ext == Lower(Suffix(name))
  IN  IF ext = SUFFIX_DOCX THEN { Env(d, Unused, Unused, Unused, Unused, Unused) : d \in docxs }
      ELSE IF ext = SUFFIX_PDF THEN PdfEnvs(name, pdfs, scans)
      ELSE IF ext = SUFFIX_TXT THEN { Env(Unused, Unused, Unused, Unused, Unused, t) : t \in txts }
      ELSE { Env(Unused, Unused, Unused, Unused, i, Unused) : i \in imgs }

\* --- behaviours explored for the functions on their own
\* what the OCR engine does with one image
ImgOutcomes == {Ret(<<" ">>), Ret(<<"x", "\n">>), Exc(CAUSE_SHORT)}
\* what rasterising and recognising a scanned PDF does
Scans == {Exc(CAUSE_LONG)} \cup { Ret(pages) : pages \in SeqsUpTo(ImgOutcomes, MaxPages) }
\* text layer of one PDF page (<<>>: extract_text() gives None or "")
PageTexts == {<<>>, <<" ">>, <<"a", " ">>, PDF_EMPTY}
PdfDocs == {Exc(CAUSE_SHORT)} \cup { Ret(pages) : pages \in SeqsUpTo(PageTexts, MaxPages) }
DocxDocs == { Exc(CAUSE_LONG), Ret(<<>>), Ret(<< <<" ">> >>), Ret(<< <<" ">>, <<"a", " ">>, <<"b">> >>) }
Decodings == { Exc(CAUSE_SHORT), Ret(<<>>), Ret(<<" ">>), Ret(<<" ", "t">>) }
TxtRaws == { [utf8 |-> u, gbk |-> g] : u \in Decodings, g \in Decodings }

Envs(name) == EnvsOf(name, DocxDocs, PdfDocs, Scans, ImgOutcomes, TxtRaws)

\* --- behaviours explored inside the batch loop: one per kind of outcome
BatchScans == { Ret(<< Ret(<<"x">>) >>), Ret(<< Ret(<<"x">>), Exc(CAUSE_SHORT) >>), Exc(CAUSE_LONG) }
BatchPdfDocs == { Ret(<< <<"a">> >>), Ret(<< <<>> >>), Exc(CAUSE_SHORT) }
BatchDocxDocs == { Exc(CAUSE_LONG), Ret(<< <<"a">> >>) }
BatchImgOutcomes == { Ret(<<"x">>), Exc(CAUSE_SHORT) }
BatchTxtRaws == { [utf8 |-> Ret(<<"t">>), gbk |-> Exc(CAUSE_SHORT)],
                  [utf8 |-> Exc(CAUSE_SHORT), gbk |-> Ret(<<"t">>)],
                  [utf8 |-> Exc(CAUSE_SHORT), gbk |-> Exc(CAUSE_LONG)] }

BatchEnvs(name) ==
  EnvsOf(name, BatchDocxDocs, BatchPdfDocs, BatchScans, BatchImgOutcomes, BatchTxtRaws)

\* --- replies of the model backend
\* Field i of reply k is treated as Treatments[((i + k) % 6) + 1]: every field
\* gets every treatment in some reply.
Treatments == <<"text", "padded", "empty", "blank", "absent", "null">>
TreatmentOf(i, k) == Treatments[((i + k) % Len(Treatments)) + 1]
ValueOf(t) ==
  IF t = "text" THEN Str(<<"v">>)
  ELSE IF t = "padded" THEN Str(<<" ", "v", " ">>)
  ELSE IF t = "empty" THEN Str(<<>>)
  ELSE IF t = "blank" THEN Str(<<" ", "u3000", "\n">>)
  ELSE JNull

FieldIndex(f) == CHOOSE i \in DOMAIN REQUIRED_FIELDS : REQUIRED_FIELDS[i] = f

ReplyRot(k) ==
  [f \in { g \in RequiredSet : TreatmentOf(FieldIndex(g), k) # "absent" } |->
     ValueOf(TreatmentOf(FieldIndex(f), k))]

\* every field "v" but field g, which is treated as t
ReplyOne(g, t) ==
  [f \in { h \in RequiredSet : h # g \/ t # "absent" } |->
     IF f = g THEN ValueOf(t) ELSE Str(<<"v">>)]

CompleteReply == [f \in RequiredSet |-> Str(<<"v">>)]
\* a compliant reply with one key too many (备注)
ExtraReply == [f \in RequiredSet \cup {"beizhu"} |-> Str(<<"v">>)]

TreatmentSet == { Treatments[i] : i \in DOMAIN Treatments }

Replies ==
  {CompleteReply, ExtraReply}
  \cup { ReplyRot(k) : k \in 0..(Len(Treatments) - 1) }
  \cup { ReplyOne(g, t) : g \in RequiredSet, t \in TreatmentSet }

ApiOf(replies) ==
  {Exc(CAUSE_LONG), Ret([json |-> FALSE, obj |-> <<>>])}
  \cup { Ret([json |-> TRUE, obj |-> r]) : r \in replies }

ApiOutcomes == ApiOf(Replies)
BatchApiOutcomes == ApiOf({CompleteReply, ExtraReply, ReplyRot(0)})

\* datetime.now()
Clock == { [Y |-> 2026, m |-> 1, d |-> 5, H |-> 9, M |-> 30, S |-> 7] }

\* zero-padded decimal of width w
RECURSIVE Pad(_, _)
Pad(t, w) == IF Len(t) >= w THEN t ELSE Pad(<<"0">> \o t, w)

\* strftime("%Y-%m-%d %H:%M:%S")
Strftime(now) ==
  Pad(IntToStr(now.Y), 4) \o <<"-">> \o Pad(IntToStr(now.m), 2) \o <<"-">>
  \o Pad(IntToStr(now.d), 2) \o <<" ">> \o Pad(IntToStr(now.H), 2) \o <<":">>
  \o Pad(IntToStr(now.M), 2) \o <<":">> \o Pad(IntToStr(now.S), 2)

\* ------------------------------------------------------------------- state
VARIABLES
  pc,                  \* position in main(): idle, tmp, read, extract, except,
                       \* finally, report, done (aborted: an error left the loop)
  uploaded_files,      \* names of the uploaded files, in order
  file_index,          \* 1-based position of the file being processed
  local_tmp_file_path, \* the local of that name; NoPath while unbound
  tmp_files,           \* temp files written by the current run that are on disk
  file_raw_text,       \* text returned by read_legal_file for the current file
  exc,                 \* message of the exception being handled
  result_list,         \* st.session_state.result_list
  success_count,       \* counts shown by the status line, -1 while not shown
  fail_count,
  outcomes,            \* history: per record of this run, TRUE when the except
                       \* branch appended it
  stage_log,           \* history: calls made for the current file, in order
  reply,               \* history: the backend's answer for the current file
  rerun,               \* history: an earlier run completed in this session
  probe                \* the library behaviour a function is tried on by itself

vars == << pc, uploaded_files, file_index, local_tmp_file_path, tmp_files,
           file_raw_text, exc, result_list, success_count, fail_count,
           outcomes, stage_log, reply, rerun, probe >>

NoPath == [bound |-> FALSE, id |-> <<>>, name |-> <<>>]
NoReply == Exc(<<>>)

\* name of the temp copy: tempfile's prefix and random part, then the suffix
TmpName(suffix) == <<"t", "m", "p", "_", "1">> \o suffix

CopyId == <<file_index, "copy", 0, 0>>
PageId(call, page) == <<file_index, "page", call, page>>

CurrentName == uploaded_files[file_index]

\* the session before the first click, with some files uploaded
Init ==
  /\ pc = "idle"
  /\ uploaded_files \in SeqsUpTo(FileNames, MaxFiles) \ {<<>>}
  /\ file_index = 0
  /\ local_tmp_file_path = NoPath
  /\ tmp_files = {}
  /\ file_raw_text = <<>>
  /\ exc = <<>>
  /\ result_list = <<>>
  /\ success_count = -1
  /\ fail_count = -1
  /\ outcomes = <<>>
  /\ stage_log = <<>>
  /\ reply = NoReply
  /\ rerun = FALSE
  /\ probe = Unused

\* a handler that lets the errors of read_legal_file through
HandlerReadEscapes(stage) == IF stage = "read" THEN "aborted" ELSE "except"

\* line 341: `except Exception` takes every exception raised in the try block
Handler(stage) == "except"

\* a click that keeps the earlier results
NotCleared(list) == list

\* line 310: st.session_state.result_list.clear()
Cleared(list) == <<>>

\* lines 308-318: the button is clicked (it is disabled without an upload)
StartBatch ==
  /\ pc \in {"idle", "done"}
  /\ uploaded_files # <<>>
  /\ result_list' = Cleared(result_list)
  /\ outcomes' = <<>>
  /\ file_index' = 1
  /\ local_tmp_file_path' = NoPath
  /\ tmp_files' = {}
  /\ file_raw_text' = <<>>
  /\ exc' = <<>>
  /\ stage_log' = <<>>
  /\ reply' = NoReply
  /\ success_count' = -1
  /\ fail_count' = -1
  /\ rerun' = (pc = "done")
  /\ pc' = "tmp"
  /\ UNCHANGED << uploaded_files, probe >>

\* lines 326-328: the upload is copied to a temp file kept after close
MaterializeOk ==
  /\ pc = "tmp"
  /\ tmp_files' = tmp_files \cup {CopyId}
  /\ local_tmp_file_path' =
       [bound |-> TRUE, id |-> CopyId, name |-> TmpName(Suffix(CurrentName))]
  /\ pc' = "read"
  /\ UNCHANGED << uploaded_files, file_index, file_raw_text, exc, result_list,
                  success_count, fail_count, outcomes, stage_log, reply, rerun, probe >>

\* line 326 raises: no temp file is made
MaterializeCreateRaises ==
  /\ pc = "tmp"
  /\ exc' = CAUSE_SHORT
  /\ pc' = Handler("tmp")
  /\ UNCHANGED << uploaded_files, file_index, local_tmp_file_path, tmp_files,
                  file_raw_text, result_list, success_count, fail_count,
                  outcomes, stage_log, reply, rerun, probe >>

\* line 327 raises: the temp file exists, line 328 is not reached
MaterializeWriteRaises ==
  /\ pc = "tmp"
  /\ exc' = CAUSE_LONG
  /\ tmp_files' = tmp_files \cup {CopyId}
  /\ pc' = Handler("tmp")
  /\ UNCHANGED << uploaded_files, file_index, local_tmp_file_path,
                  file_raw_text, result_list, success_count, fail_count,
                  outcomes, stage_log, reply, rerun, probe >>

\* line 331, the libraries behaving as env
ReadWith(env) ==
  LET r == read_legal_file(local_tmp_file_path.name, env)
  IN  /\ stage_log' = r.calls
      /\ tmp_files' = tmp_files \cup { PageId(l[1], l[2]) : l \in r.left }
      /\ IF r.res.ok
         THEN /\ file_raw_text' = r.res.val
              /\ pc' = "extract"
              /\ UNCHANGED exc
         ELSE /\ exc' = r.res.val
              /\ pc' = Handler("read")
              /\ UNCHANGED file_raw_text
      /\ UNCHANGED << uploaded_files, file_index, local_tmp_file_path,
                      result_list, success_count, fail_count, outcomes, reply, rerun, probe >>

ReadLegalFile ==
  /\ pc = "read"
  /\ \E env \in BatchEnvs(CurrentName) : ReadWith(env)

\* lines 335-336: the provenance keys are set on the returned dict
WithProvenance(data, name, now) ==
  [k \in (DOMAIN data) \cup {FILENAME_KEY, TIME_KEY} |->
     IF k = FILENAME_KEY THEN Str(name)
     ELSE IF k = TIME_KEY THEN Str(Strftime(now))
     ELSE data[k]]

\* lines 333-339, the backend behaving as api
ExtractWith(api, now) ==
  LET r == extract_legal_data(api)
  IN  /\ reply' = api
      /\ stage_log' = Append(stage_log, [stage |-> "extract_legal_data",
                                          ok |-> r.ok, out |-> <<>>])
      /\ IF r.ok
         THEN /\ result_list' = Append(result_list, WithProvenance(r.val, CurrentName, now))
              /\ outcomes' = Append(outcomes, FALSE)
              /\ pc' = "finally"
              /\ UNCHANGED exc
         ELSE /\ exc' = r.val
              /\ pc' = Handler("extract")
              /\ UNCHANGED << result_list, outcomes >>
      /\ UNCHANGED << uploaded_files, file_index, local_tmp_file_path, tmp_files,
                      file_raw_text, success_count, fail_count, rerun, probe >>

ExtractLegalData ==
  /\ pc = "extract"
  /\ \E api \in BatchApiOutcomes, now \in Clock : ExtractWith(api, now)

\* a title that keeps the whole cause
FailureTitleUncut(cause) == FAIL_PREFIX \o cause \o FAIL_SUFFIX

\* line 346: f"失败原因：{str(e)[:50]}..."
FailureTitle(cause) == FAIL_PREFIX \o Take(cause, CAUSE_CUT_LENGTH) \o FAIL_SUFFIX

\* lines 343-346
ErrorData(cause, name, now) ==
  [k \in ColumnSet |->
     IF k = TITLE_FIELD THEN Str(FailureTitle(cause))
     ELSE IF k = FILENAME_KEY THEN Str(name)
     ELSE IF k = TIME_KEY THEN Str(Strftime(now))
     ELSE Str(EXTRACT_FAILED)]

\* lines 341-348
HandleException ==
  /\ pc = "except"
  /\ \E now \in Clock :
       result_list' = Append(result_list, ErrorData(exc, CurrentName, now))
  /\ outcomes' = Append(outcomes, TRUE)
  /\ pc' = "finally"
  /\ UNCHANGED << uploaded_files, file_index, local_tmp_file_path, tmp_files,
                  file_raw_text, exc, success_count, fail_count, stage_log,
                  reply, rerun, probe >>

\* lines 349-352, then the loop goes on or ends
Finally ==
  /\ pc = "finally"
  /\ tmp_files' = IF local_tmp_file_path.bound
                  THEN tmp_files \ {local_tmp_file_path.id}
                  ELSE tmp_files
  /\ IF file_index < Len(uploaded_files)
     THEN /\ file_index' = file_index + 1
          /\ pc' = "tmp"
          /\ file_raw_text' = <<>>
          /\ exc' = <<>>
          /\ stage_log' = <<>>
          /\ reply' = NoReply
     ELSE /\ pc' = "report"
          /\ UNCHANGED << file_index, file_raw_text, exc, stage_log, reply >>
  /\ UNCHANGED << uploaded_files, local_tmp_file_path, result_list,
                  success_count, fail_count, outcomes, rerun, probe >>

\* line 357: res["文书名称"] != "提取失败"
CountsAsSuccess(res) == res[TITLE_FIELD] # Str(EXTRACT_FAILED)

\* lines 355-359
Report ==
  /\ pc = "report"
  /\ success_count' = Len(SelectSeq(result_list, CountsAsSuccess))
  /\ fail_count' = Len(uploaded_files) - Len(SelectSeq(result_list, CountsAsSuccess))
  /\ pc' = "done"
  /\ UNCHANGED << uploaded_files, file_index, local_tmp_file_path, tmp_files,
                  file_raw_text, exc, result_list, outcomes, stage_log, reply, rerun, probe >>

Next ==
  \/ StartBatch
  \/ MaterializeOk
  \/ MaterializeCreateRaises
  \/ MaterializeWriteRaises
  \/ ReadLegalFile
  \/ ExtractLegalData
  \/ HandleException
  \/ Finally
  \/ Report

Spec == Init /\ [][Next]_vars

\* ------------------------------------- read_legal_file tried on by itself
InitRead ==
  /\ pc = "read"
  /\ uploaded_files \in { <<n>> : n \in FileNames \cup OtherNames }
  /\ file_index = 1
  /\ local_tmp_file_path =
       [bound |-> TRUE, id |-> <<1, "copy", 0, 0>>,
        name |-> TmpName(Suffix(uploaded_files[1]))]
  /\ tmp_files = { <<1, "copy", 0, 0>> }
  /\ file_raw_text = <<>>
  /\ exc = <<>>
  /\ result_list = <<>>
  /\ success_count = -1
  /\ fail_count = -1
  /\ outcomes = <<>>
  /\ stage_log = <<>>
  /\ reply = NoReply
  /\ rerun = FALSE
  /\ probe \in Envs(uploaded_files[1])

ProbeRead ==
  /\ pc = "read"
  /\ ReadWith(probe)

NextRead == ProbeRead

SpecRead == InitRead /\ [][NextRead]_vars

\* ---------------------------------- extract_legal_data tried on by itself
InitExtract ==
  /\ pc = "extract"
  /\ uploaded_files = << <<"a", ".", "d", "o", "c", "x">> >>
  /\ file_index = 1
  /\ local_tmp_file_path =
       [bound |-> TRUE, id |-> <<1, "copy", 0, 0>>,
        name |-> TmpName(Suffix(uploaded_files[1]))]
  /\ tmp_files = { <<1, "copy", 0, 0>> }
  /\ file_raw_text = <<"a">>
  /\ exc = <<>>
  /\ result_list = <<>>
  /\ success_count = -1
  /\ fail_count = -1
  /\ outcomes = <<>>
  /\ stage_log = << [stage |-> "read_docx_file", ok |-> TRUE, out |-> <<"a">>] >>
  /\ reply = NoReply
  /\ rerun = FALSE
  /\ probe \in ApiOutcomes

ProbeExtract ==
  /\ pc = "extract"
  /\ \E now \in Clock : ExtractWith(probe, now)

NextExtract == ProbeExtract

SpecExtract == InitExtract /\ [][NextExtract]_vars

\* ------------------------------------------------------------ properties
\* read_legal_file has run for the current file
ReadDone ==
  /\ pc \in {"extract", "except", "finally", "report", "done"}
  /\ local_tmp_file_path.bound
  /\ local_tmp_file_path.id = CopyId

LastRecord == result_list[Len(result_list)]

Failed(i) == outcomes[i]

CallsOf(stages) == { i \in DOMAIN stage_log : stage_log[i].stage \in stages }

OcrStages == {"tesseract_ocr_scanned_pdf", "tesseract_ocr_image"}
ReaderStages == {"read_docx_file", "read_pdf_file", "read_txt_file"}

AllSpaces(t) == \A i \in DOMAIN t : IsSpace(t[i])

\* C1: every record of the result collection has exactly the two provenance
\* keys and the 11 required fields as keys, and no null value.
C1_SchemaComplete ==
  \A i \in DOMAIN result_list :
    /\ DOMAIN result_list[i] = ColumnSet
    /\ \A k \in DOMAIN result_list[i] : result_list[i][k].kind # "null"

\* C2: when a batch run completes, the reported success count is the number of
\* files that finished without a stage raising and the reported failure count
\* is the number of files that got a failure record.
C2_CountsMatch ==
  pc = "done" =>
    /\ success_count = Cardinality({ i \in DOMAIN outcomes : ~Failed(i) })
    /\ fail_count = Cardinality({ i \in DOMAIN outcomes : Failed(i) })

\* C3: no error leaves the loop, and once the loop has ended every file after
\* a failed one has its own record.
C3_BatchIsolation ==
  /\ pc # "aborted"
  /\ pc \in {"report", "done"} =>
       \A i \in DOMAIN outcomes :
         Failed(i) =>
           \A j \in (i + 1)..Len(uploaded_files) :
             /\ j \in DOMAIN result_list
             /\ result_list[j][FILENAME_KEY] = Str(uploaded_files[j])

C3_Witness ==
  /\ pc = "done"
  /\ Len(result_list) = MaxFiles
  /\ Failed(1)
  /\ ~Failed(MaxFiles)
  /\ result_list[MaxFiles][FILENAME_KEY] = Str(uploaded_files[MaxFiles])

SupportedSuffixes ==
  { SUFFIX_DOCX, SUFFIX_PDF, SUFFIX_TXT,
    <<".", "j", "p", "g">>, <<".", "j", "p", "e", "g">>,
    <<".", "p", "n", "g">>, <<".", "b", "m", "p">> }

ImageSuffixes ==
  { <<".", "j", "p", "g">>, <<".", "j", "p", "e", "g">>,
    <<".", "p", "n", "g">>, <<".", "b", "m", "p">> }

Rejected == pc = "except" /\ stage_log = <<>>

\* C4: a file whose extension is .jpg, .jpeg, .png or .bmp in any case goes to
\* the image OCR and to nothing else, and a file is rejected as unsupported
\* only when its extension is none of the seven.
C4_ImageRouting ==
  ReadDone =>
    /\ Lower(Suffix(CurrentName)) \in ImageSuffixes =>
         /\ CallsOf({"tesseract_ocr_image"}) # {}
         /\ CallsOf(ReaderStages) = {}
    /\ Rejected => Lower(Suffix(CurrentName)) \notin SupportedSuffixes

\* C5: when the next file starts, and when the loop has ended, no temp file
\* written for a file of the run is left on disk.
C5_TmpReleased ==
  pc \in {"tmp", "report", "done"} => tmp_files = {}

\* C6: for a .pdf the direct reader is called first; when it raises or yields
\* "" or the no-content sentinel (as it does when no page has text) the
\* scanned-PDF OCR is called next; when it yields any other text, that text is
\* returned and no OCR is called.
C6_PdfRouting ==
  (ReadDone /\ Lower(Suffix(CurrentName)) = SUFFIX_PDF) =>
    LET d == read_pdf_file(probe.pdf)
        empty == d.val = PDF_EMPTY \/ Len(d.val) = 0
    IN  /\ stage_log # <<>>
        /\ stage_log[1] = Call("read_pdf_file", d)
        /\ (d.ok /\ ~empty) =>
             /\ Len(stage_log) = 1
             /\ pc = "extract"
             /\ file_raw_text = d.val
        /\ (~d.ok \/ empty) =>
             /\ Len(stage_log) >= 2
             /\ stage_log[2].stage = "tesseract_ocr_scanned_pdf"
        /\ (probe.pdf.ok /\ \A p \in DOMAIN probe.pdf.val : probe.pdf.val[p] = <<>>) =>
             CallsOf(OcrStages) # {}

C6_Witness ==
  /\ ReadDone
  /\ Lower(Suffix(CurrentName)) = SUFFIX_PDF
  /\ probe.pdf.ok
  /\ probe.pdf.val = << <<" ">> >>
  /\ Len(stage_log) = 2
  /\ stage_log[1].out = <<>>
  /\ stage_log[2].stage = "tesseract_ocr_scanned_pdf"
  /\ pc = "extract"

\* C7: in the record made from a parsed reply, a required field the reply
\* omits or holds as an empty or all-whitespace string is "未提及", and a
\* required field the reply holds as a string with other text is unchanged.
C7_SentinelFill ==
  (pc = "finally" /\ reply.ok /\ ~Failed(Len(outcomes))) =>
    LET d == reply.val.obj
    IN  \A f \in RequiredSet :
          /\ (f \notin DOMAIN d) => LastRecord[f] = Str(NOT_MENTIONED)
          /\ (f \in DOMAIN d /\ d[f].kind = "str") =>
               IF AllSpaces(d[f].text)
               THEN LastRecord[f] = Str(NOT_MENTIONED)
               ELSE LastRecord[f] = d[f]

C7_Witness ==
  /\ pc = "finally"
  /\ reply.ok
  /\ ~Failed(Len(outcomes))
  /\ \E f, g, h \in RequiredSet :
       /\ f \notin DOMAIN reply.val.obj
       /\ LastRecord[f] = Str(NOT_MENTIONED)
       /\ g \in DOMAIN reply.val.obj
       /\ reply.val.obj[g] = Str(<<" ", "u3000", "\n">>)
       /\ LastRecord[g] = Str(NOT_MENTIONED)
       /\ h \in DOMAIN reply.val.obj
       /\ LastRecord[h] = Str(<<" ", "v", " ">>)

\* the first n characters of t
Cut(t, n) == [i \in 1..(IF Len(t) < n THEN Len(t) ELSE n) |-> t[i]]

\* the record the except branch has just appended is a failure record whose
\* document title is `title`
FailureRecordWith(title) ==
  (pc = "finally" /\ Failed(Len(outcomes))) =>
    /\ \A f \in RequiredSet \ {TITLE_FIELD} : LastRecord[f] = Str(EXTRACT_FAILED)
    /\ LastRecord[FILENAME_KEY] = Str(CurrentName)
    /\ LastRecord[TIME_KEY].kind = "str"
    /\ Len(LastRecord[TIME_KEY].text) > 0
    /\ LastRecord[TITLE_FIELD] = Str(title)

\* C8 as stated: the title is the prefix "失败原因：" followed by the first 50
\* characters of the cause, and nothing more.
C8_Original == FailureRecordWith(FAIL_PREFIX \o Cut(exc, CAUSE_CUT_LENGTH))

\* C8 amended: the failure record has "提取失败" in every required field but the
\* title, the file's name and a timestamp, and the title is the prefix
\* "失败原因：", then the first 50 characters of the cause, then "...".
C8_FailureRecord ==
  FailureRecordWith(FAIL_PREFIX \o Cut(exc, CAUSE_CUT_LENGTH) \o <<".", ".", ".">>)

C8_Witness ==
  /\ pc = "finally"
  /\ Failed(Len(outcomes))
  /\ Len(exc) > CAUSE_CUT_LENGTH
  /\ Len(LastRecord[TITLE_FIELD].text) = Len(FAIL_PREFIX) + CAUSE_CUT_LENGTH + Len(FAIL_SUFFIX)

\* C9: the result collection holds the records of the current run only, one
\* per file processed so far and in submission order; after the run it holds
\* one record per uploaded file.
C9_ResultsOfLastRun ==
  /\ Len(result_list) = Len(outcomes)
  /\ \A i \in DOMAIN result_list :
       /\ i \in DOMAIN uploaded_files
       /\ result_list[i][FILENAME_KEY] = Str(uploaded_files[i])
  /\ pc \in {"report", "done"} => Len(result_list) = Len(uploaded_files)

C9_Witness ==
  /\ pc = "done"
  /\ rerun
  /\ Len(result_list) = MaxFiles
  /\ Failed(1)
  /\ ~Failed(MaxFiles)

\* C10: for one file the direct reader, the OCR path and the model request
\* are each called at most once, the model request comes after a call that
\* returned text, and nothing is called after a failed OCR call or a failed
\* model request.
C10_NoRetry ==
  /\ Cardinality(CallsOf(ReaderStages)) <= 1
  /\ Cardinality(CallsOf(OcrStages)) <= 1
  /\ Cardinality(CallsOf({"extract_legal_data"})) <= 1
  /\ \A i \in CallsOf({"extract_legal_data"}) : i > 1 /\ stage_log[i - 1].ok
  /\ \A i \in CallsOf(OcrStages \cup {"extract_legal_data"}) :
       ~stage_log[i].ok => i = Len(stage_log)

=============================================================================
